---- MODULE Spec2Model ----
(***************************************************************************)
(* A model of src/app.py: the questionnaire session, the nearest-match     *)
(* selector and the graph-diff classification of display_demoviz_graph.    *)
(*                                                                         *)
(* Representation of the Python values:                                    *)
(*   - a dict is a function whose domain is its set of keys; the empty     *)
(*     dict is the function with the empty domain;                         *)
(*   - a list is a sequence;                                               *)
(*   - a JSON scalar that can be an id is a record [scalar, v];            *)
(*   - a score is a number; the query scores, which are means of three     *)
(*     integers, are kept exactly as a count of thirds (3 * score).        *)
(***************************************************************************)
EXTENDS Integers, Sequences, FiniteSets, TLC

VARIABLES
    mItems, mScores, mOut, mPc,      \* the match-and-display step on its own
    gGraph, gBaseline, gOut, gPc,    \* display_demoviz_graph on its own
    fs, radio, ss, shown             \* the session: files, widgets, st.session_state, page

vars == <<mItems, mScores, mOut, mPc, gGraph, gBaseline, gOut, gPc, fs, radio, ss, shown>>
matchVars == <<mItems, mScores, mOut, mPc>>
graphVars == <<gGraph, gBaseline, gOut, gPc>>
sessionVars == <<fs, radio, ss, shown>>

----------------------------------------------------------------------------
(* Bounds of the model *)

\* longest candidate list given to the selector
MaxItems == 2
\* longest node list of a target graph
MaxNodes == 2
\* longest edge list of a target graph
MaxEdges == 1

----------------------------------------------------------------------------
(* Python values *)

\* the empty dict {}
EmptyDict == <<>>

\* dict.get(k, default)
Get(d, k, default) == IF k \in DOMAIN d THEN d[k] ELSE default

\* truth value of a dict: {} is falsy
TruthyDict(d) == DOMAIN d # {}

\* None, where a dict is expected (a record no dict of the model equals)
None == [none |-> TRUE]

IsNone(x) == x = None

\* truth value of "a dict or None"
Truthy(x) == (~IsNone(x)) /\ TruthyDict(x)

\* a JSON integer and a JSON string
JInt(n) == [scalar |-> "int", v |-> n]
JStr(s) == [scalar |-> "str", v |-> s]

\* isinstance(x, dict): everything of the model that is not a scalar or None
IsDict(x) == (~IsNone(x)) /\ ("scalar" \notin DOMAIN x)

\* the decimal digits, for str() of the small integers
DigitStr == <<"0", "1", "2", "3", "4", "5", "6", "7", "8", "9">>

\* str(x) of an id: digits for an integer, the string itself for a string
Str(x) == IF x.scalar = "int" THEN DigitStr[x.v + 1] ELSE x.v

\* the characters of the model in the order of their code points
CodeOrder ==
    <<" ", "-", ".", "1", "2", "3",
      "A", "B", "C", "D", "E", "F", "G", "H", "I", "J", "K", "L", "M",
      "N", "O", "P", "Q", "R", "S", "T", "U", "V", "W", "X", "Y", "Z", "_",
      "a", "b", "c", "d", "e", "f", "g", "h", "i", "j", "k", "l", "m",
      "n", "o", "p", "q", "r", "s", "t", "u", "v", "w", "x", "y", "z">>

\* the rank of a character in that order (0: not a character of the model)
Ord(c) ==
    IF \E i \in DOMAIN CodeOrder : CodeOrder[i] = c
    THEN CHOOSE i \in DOMAIN CodeOrder : CodeOrder[i] = c
    ELSE 0

\* tuple(sorted((s, t))) for one-character strings
SortedTupleNone(s, t) == <<s, t>>
SortedTuple(s, t) == IF Ord(s) <= Ord(t) THEN <<s, t>> ELSE <<t, s>>

----------------------------------------------------------------------------
(* find_matching_simulation_item *)

\* a simulation item: tag stands for the identity of the list element (its
\* position in the file), d is the record itself
Item(tag, d) == [tag |-> tag, d |-> d]

\* the "no match" result
NoMatch == [tag |-> 0, d |-> None]

\* the default of a missing score field
MissingScore == -1000

\* s.get(k, -1000.0)
ScoreOrZero(s, k) == Get(s, k, 0)
ScoreOr(s, k) == Get(s, k, MissingScore)

\* dist_sq of an item's scores s to the query, the query in thirds: the
\* value is 9 times the code's dist_sq, so that it stays an integer
DistSqNoClustering(s, centrality3, connectivity3, clustering3) ==
    (3 * ScoreOr(s, "centrality") - centrality3) * (3 * ScoreOr(s, "centrality") - centrality3)
    + (3 * ScoreOr(s, "connectivity") - connectivity3) * (3 * ScoreOr(s, "connectivity") - connectivity3)
DistSq(s, centrality3, connectivity3, clustering3) ==
    (3 * ScoreOr(s, "centrality") - centrality3) * (3 * ScoreOr(s, "centrality") - centrality3)
    + (3 * ScoreOr(s, "connectivity") - connectivity3) * (3 * ScoreOr(s, "connectivity") - connectivity3)
    + (3 * ScoreOr(s, "clustering") - clustering3) * (3 * ScoreOr(s, "clustering") - clustering3)

\* dist_sq < min_dist_sq; min_dist_sq is <<>> while it is float('inf')
IsCloserOrEqual(d, min_dist_sq) == min_dist_sq = <<>> \/ d <= min_dist_sq[1]
IsCloser(d, min_dist_sq) == min_dist_sq = <<>> \/ d < min_dist_sq[1]

\* the loop over the list from element i on
RECURSIVE ScanItems(_, _, _, _, _, _, _)

\* one pass of the loop, dist_sq computed
ScanItem(list, i, centrality3, connectivity3, clustering3, best_match, min_dist_sq, dist_sq) ==
    IF IsCloser(dist_sq, min_dist_sq)
    THEN ScanItems(list, i + 1, centrality3, connectivity3, clustering3, list[i], <<dist_sq>>)
    ELSE ScanItems(list, i + 1, centrality3, connectivity3, clustering3, best_match, min_dist_sq)

ScanItems(list, i, centrality3, connectivity3, clustering3, best_match, min_dist_sq) ==
    IF i > Len(list) THEN best_match
    ELSE ScanItem(list, i, centrality3, connectivity3, clustering3, best_match, min_dist_sq,
                  DistSq(Get(list[i].d, "scores", EmptyDict),
                         centrality3, connectivity3, clustering3))

find_matching_no_guard(simulation_items_list, centrality3, connectivity3, clustering3) ==
    ScanItems(simulation_items_list, 1, centrality3, connectivity3, clustering3,
              Item(0, EmptyDict), <<>>)
find_matching_simulation_item(simulation_items_list, centrality3, connectivity3, clustering3) ==
    IF Len(simulation_items_list) = 0 THEN NoMatch
    ELSE ScanItems(simulation_items_list, 1, centrality3, connectivity3, clustering3,
                   NoMatch, <<>>)

----------------------------------------------------------------------------
(* display_demoviz_graph *)

\* a record of the node list that the loop accepts
NodeValid(node) == IsDict(node) /\ "id" \in DOMAIN node

\* a record of the edge list that the loop accepts
EdgeValid(edge) == IsDict(edge) /\ "source" \in DOMAIN edge /\ "target" \in DOMAIN edge

\* the test "if baseline_graph_data:" and the left operand of is_new_node
BaselineGiven(baseline_graph_data) == Truthy(baseline_graph_data)

\* baseline_node_ids
BaselineNodeIds(baseline_graph_data) ==
    IF BaselineGiven(baseline_graph_data)
    THEN LET nodes == Get(baseline_graph_data, "nodes", <<>>)
         IN  {Str(nodes[i]["id"]) : i \in {j \in DOMAIN nodes : NodeValid(nodes[j])}}
    ELSE {}

\* baseline_edge_tuples
BaselineEdgeTuples(baseline_graph_data) ==
    IF BaselineGiven(baseline_graph_data)
    THEN LET edges == Get(baseline_graph_data, "edges", <<>>)
         IN  {SortedTuple(Str(edges[i]["source"]), Str(edges[i]["target"])) :
                 i \in {j \in DOMAIN edges : EdgeValid(edges[j])}}
    ELSE {}

\* is_new_node, as a truth value
IsNewNodeAlways(baseline_graph_data, node_id_str) ==
    node_id_str \notin BaselineNodeIds(baseline_graph_data)
IsNewNode(baseline_graph_data, node_id_str) ==
    BaselineGiven(baseline_graph_data)
    /\ node_id_str \notin BaselineNodeIds(baseline_graph_data)

\* is_new_edge, as a truth value
IsNewEdge(baseline_graph_data, edge_source_str, edge_target_str) ==
    BaselineGiven(baseline_graph_data)
    /\ SortedTuple(edge_source_str, edge_target_str) \notin BaselineEdgeTuples(baseline_graph_data)

\* colour and size of a node
NodeStyleNewFirst(node_role, is_new_node) ==
    IF is_new_node THEN [color |-> "#32CD32", size |-> 15]
    ELSE IF node_role = "initial_hub" THEN [color |-> "#FFA500", size |-> 20]
    ELSE IF node_role = "polycentric_hub" THEN [color |-> "#FFD700", size |-> 22]
    ELSE IF node_role = "central_hub" THEN [color |-> "#FF4500", size |-> 25]
    ELSE IF node_role = "emergent_hub" THEN [color |-> "#FF8C00", size |-> 20]
    ELSE IF node_role = "spoke_node" THEN [color |-> "#87CEEB", size |-> 15]
    ELSE [color |-> "#C0C0C0", size |-> 15]
NodeStyle(node_role, is_new_node) ==
    IF node_role = "initial_hub" THEN [color |-> "#FFA500", size |-> 20]
    ELSE IF node_role = "polycentric_hub" THEN [color |-> "#FFD700", size |-> 22]
    ELSE IF node_role = "central_hub" THEN [color |-> "#FF4500", size |-> 25]
    ELSE IF node_role = "emergent_hub" THEN [color |-> "#FF8C00", size |-> 20]
    ELSE IF node_role = "spoke_node" THEN [color |-> "#87CEEB", size |-> 15]
    ELSE IF is_new_node /\ node_role = "default_node" THEN [color |-> "#32CD32", size |-> 15]
    ELSE [color |-> "#C0C0C0", size |-> 15]

\* colour, width (in tenths) and dashes of an edge
EdgeStyle(edge_type, is_new_edge) ==
    IF edge_type = "spanning_tree_link"
    THEN [color |-> "#A9A9A9", width |-> 10, dashes |-> FALSE]
    ELSE IF edge_type = "clustering_link" \/ edge_type = "local_cluster_link"
    THEN [color |-> "#4682B4", width |-> 20, dashes |-> FALSE]
    ELSE IF edge_type = "hub_connection" \/ edge_type = "spoke_connection"
    THEN [color |-> "#FF8C00", width |-> 20, dashes |-> FALSE]
    ELSE IF edge_type = "hub_interlink"
    THEN [color |-> "#FF4500", width |-> 25, dashes |-> FALSE]
    ELSE IF edge_type = "sync_enhancement_link"
    THEN [color |-> "#20B2AA", width |-> 10, dashes |-> FALSE]
    ELSE IF edge_type = "shortcut_link"
    THEN [color |-> "#9370DB", width |-> 20, dashes |-> TRUE]
    ELSE IF edge_type = "preferential_attachment_link"
    THEN [color |-> "#3CB371", width |-> 15, dashes |-> FALSE]
    ELSE IF is_new_edge /\ edge_type = "default_link"
    THEN [color |-> "#0000FF", width |-> 25, dashes |-> FALSE]
    ELSE IF edge_type = "random_link"
    THEN [color |-> "#E0E0E0", width |-> 10, dashes |-> FALSE]
    ELSE IF edge_type = "generic_added_link"
    THEN [color |-> "#006400", width |-> 20, dashes |-> FALSE]
    ELSE [color |-> "#D3D3D3", width |-> 10, dashes |-> FALSE]

\* the Node appended for a valid record, with the value is_new_node had for it
\* and the record's index in the list
MakeNode(node_id_str, node_label, style, is_new_node, node_idx) ==
    [id |-> node_id_str, label |-> node_label, size |-> style.size,
     color |-> style.color, shape |-> "dot", is_new |-> is_new_node, idx |-> node_idx]

StyledNode(node_dict, node_id_str, node_role, is_new_node, node_idx) ==
    MakeNode(node_id_str, Get(node_dict, "label", node_id_str),
             NodeStyle(node_role, is_new_node), is_new_node, node_idx)

\* one pass of the node loop for a valid record
NodeViz(node_dict, node_idx, baseline_graph_data) ==
    StyledNode(node_dict, Str(node_dict["id"]), Get(node_dict, "role", "default_node"),
               IsNewNode(baseline_graph_data, Str(node_dict["id"])), node_idx)

\* the Edge appended for a valid record
MakeEdge(edge_source_str, edge_target_str, style, is_new_edge, edge_idx) ==
    [source |-> edge_source_str, target |-> edge_target_str,
     color |-> style.color, width |-> style.width, dashes |-> style.dashes,
     is_new |-> is_new_edge, idx |-> edge_idx]

StyledEdge(edge_source_str, edge_target_str, edge_type, is_new_edge, edge_idx) ==
    MakeEdge(edge_source_str, edge_target_str, EdgeStyle(edge_type, is_new_edge),
             is_new_edge, edge_idx)

\* one pass of the edge loop for a valid record
EdgeViz(edge_dict, edge_idx, baseline_graph_data) ==
    StyledEdge(Str(edge_dict["source"]), Str(edge_dict["target"]),
               Get(edge_dict, "type", "default_link"),
               IsNewEdge(baseline_graph_data, Str(edge_dict["source"]), Str(edge_dict["target"])),
               edge_idx)

\* nodes_viz.append and st.warning, on the result of the rest of the loop
AddViz(rest, viz) == [rest EXCEPT !.viz = <<viz>> \o @]
AddWarning(rest, kind, idx) == [rest EXCEPT !.warnings = <<[kind |-> kind, idx |-> idx]>> \o @]

\* the node loop from index i on: nodes_viz and the warnings, in order
RECURSIVE NodesLoopStop(_, _, _)
NodesLoopStop(nodes_data, i, baseline_graph_data) ==
    IF i > Len(nodes_data) THEN [viz |-> <<>>, warnings |-> <<>>]
    ELSE IF NodeValid(nodes_data[i])
    THEN AddViz(NodesLoopStop(nodes_data, i + 1, baseline_graph_data),
                NodeViz(nodes_data[i], i - 1, baseline_graph_data))
    ELSE AddWarning([viz |-> <<>>, warnings |-> <<>>], "invalid_node", i - 1)
RECURSIVE NodesLoop(_, _, _)
NodesLoop(nodes_data, i, baseline_graph_data) ==
    IF i > Len(nodes_data) THEN [viz |-> <<>>, warnings |-> <<>>]
    ELSE IF NodeValid(nodes_data[i])
    THEN AddViz(NodesLoop(nodes_data, i + 1, baseline_graph_data),
                NodeViz(nodes_data[i], i - 1, baseline_graph_data))
    ELSE AddWarning(NodesLoop(nodes_data, i + 1, baseline_graph_data), "invalid_node", i - 1)

\* the edge loop from index i on
RECURSIVE EdgesLoop(_, _, _)
EdgesLoop(edges_data, i, baseline_graph_data) ==
    IF i > Len(edges_data) THEN [viz |-> <<>>, warnings |-> <<>>]
    ELSE IF EdgeValid(edges_data[i])
    THEN AddViz(EdgesLoop(edges_data, i + 1, baseline_graph_data),
                EdgeViz(edges_data[i], i - 1, baseline_graph_data))
    ELSE AddWarning(EdgesLoop(edges_data, i + 1, baseline_graph_data), "invalid_edge", i - 1)

\* lines 213-234: agraph is called unless no node is valid
RenderGraph(nodes, edges) ==
    IF nodes.viz = <<>>
    THEN [warnings |-> nodes.warnings \o edges.warnings
                       \o <<[kind |-> "no_valid_nodes", idx |-> 0]>>,
          nodes_viz |-> nodes.viz, edges_viz |-> edges.viz, rendered |-> FALSE]
    ELSE [warnings |-> nodes.warnings \o edges.warnings,
          nodes_viz |-> nodes.viz, edges_viz |-> edges.viz, rendered |-> TRUE]

\* what one call does: the warnings it shows, the lists it builds, and whether
\* agraph is called with them
display_demoviz_graph(graph_data, baseline_graph_data) ==
    IF ~Truthy(graph_data)
    THEN [warnings |-> <<[kind |-> "graph_missing", idx |-> 0]>>,
          nodes_viz |-> <<>>, edges_viz |-> <<>>, rendered |-> FALSE]
    ELSE RenderGraph(NodesLoop(Get(graph_data, "nodes", <<>>), 1, baseline_graph_data),
                     EdgesLoop(Get(graph_data, "edges", <<>>), 1, baseline_graph_data))

----------------------------------------------------------------------------
(* display_demoviz_graph on its own: the inputs are drawn in the initial    *)
(* state and one action applies the function                                *)

\* all sequences over S of length at most n
SeqUpTo(S, n) == UNION {[1..k -> S] : k \in 0..n}

NodeA == "id" :> JStr("A")
NodeC == "id" :> JStr("C")

\* the node records of the target graphs: generic and tagged ones, an id that
\* is an integer, and two that the loop rejects
NodeRecords ==
    { NodeA,
      NodeC,
      ("id" :> JStr("C")) @@ ("role" :> "default_node"),
      ("id" :> JStr("C")) @@ ("role" :> "central_hub"),
      ("id" :> JStr("A")) @@ ("role" :> "spoke_node"),
      ("id" :> JInt(1)),
      ("id" :> JStr("A")) @@ ("role" :> "initial_node") @@ ("label" :> "Alice"),
      JStr("A"),
      ("label" :> "Bob") }

EdgeAC == ("source" :> JStr("A")) @@ ("target" :> JStr("C"))
EdgeCA == ("source" :> JStr("C")) @@ ("target" :> JStr("A"))

\* the edge records of the target graphs
EdgeRecords ==
    { EdgeAC,
      EdgeCA,
      EdgeCA @@ ("type" :> "default_link"),
      EdgeAC @@ ("type" :> "hub_interlink"),
      EdgeCA @@ ("type" :> "random_link"),
      ("source" :> JInt(1)) @@ ("target" :> JStr("A")),
      ("source" :> JStr("A")),
      JStr("A") }

\* the edge records of the longer edge lists
FewEdgeRecords == { EdgeAC, EdgeCA @@ ("type" :> "random_link"), ("target" :> JStr("C")) }

\* the target graphs: every pair of a node list and an edge list, two node
\* lists with a longer edge list, and the two values the first test of the
\* function rejects
TargetGraphs ==
    { ("nodes" :> ns) @@ ("edges" :> es) :
          ns \in SeqUpTo(NodeRecords, MaxNodes), es \in SeqUpTo(EdgeRecords, MaxEdges) }
    \cup { ("nodes" :> ns) @@ ("edges" :> es) :
              ns \in {<<NodeA, NodeC>>, <<JStr("A"), NodeC>>},
              es \in SeqUpTo(FewEdgeRecords, MaxEdges + 1) }
    \cup {None, EmptyDict}

\* the baselines: none, the empty record, a graph without nodes, and graphs
\* that hold some of the target's ids and edges
Baselines ==
    { None,
      EmptyDict,
      ("nodes" :> <<>>),
      ("nodes" :> <<NodeA, NodeC>>) @@ ("edges" :> <<EdgeAC @@ ("type" :> "hub_interlink")>>),
      ("nodes" :> <<NodeA, "id" :> JStr("1")>>) @@ ("edges" :> <<EdgeCA>>),
      ("nodes" :> <<JStr("C"), NodeA>>)
          @@ ("edges" :> <<("source" :> JStr("A")) @@ ("target" :> JInt(1)), JStr("C")>>) }

\* the result before the call
NoOutput == [warnings |-> <<>>, nodes_viz |-> <<>>, edges_viz |-> <<>>, rendered |-> FALSE]

GraphIdle ==
    /\ gGraph = None /\ gBaseline = None /\ gOut = NoOutput /\ gPc = "off"

GraphInit ==
    /\ gGraph \in TargetGraphs
    /\ gBaseline \in Baselines
    /\ gOut = NoOutput
    /\ gPc = "call"

Display ==
    /\ gPc = "call"
    /\ gOut' = display_demoviz_graph(gGraph, gBaseline)
    /\ gPc' = "done"
    /\ UNCHANGED <<gGraph, gBaseline>>
    /\ UNCHANGED <<matchVars, sessionVars>>

----------------------------------------------------------------------------
(* Names of triggers and files: a string is a sequence of characters *)

UpperCase == <<"A", "B", "C", "D", "E", "F", "G", "H", "I", "J", "K", "L", "M",
               "N", "O", "P", "Q", "R", "S", "T", "U", "V", "W", "X", "Y", "Z">>
LowerCase == <<"a", "b", "c", "d", "e", "f", "g", "h", "i", "j", "k", "l", "m",
               "n", "o", "p", "q", "r", "s", "t", "u", "v", "w", "x", "y", "z">>

IsUpper(c) == \E i \in DOMAIN UpperCase : UpperCase[i] = c
IsLower(c) == \E i \in DOMAIN LowerCase : LowerCase[i] = c
IsLetter(c) == IsUpper(c) \/ IsLower(c)

\* c.lower() and c.upper() of one character
ToLower(c) == IF IsUpper(c) THEN LowerCase[CHOOSE i \in DOMAIN UpperCase : UpperCase[i] = c] ELSE c
ToUpper(c) == IF IsLower(c) THEN UpperCase[CHOOSE i \in DOMAIN LowerCase : LowerCase[i] = c] ELSE c

\* str.lower()
StrLower(str) == [i \in DOMAIN str |-> ToLower(str[i])]

\* str.replace(a, b) for one-character a and b
StrReplace(str, a, b) == [i \in DOMAIN str |-> IF str[i] = a THEN b ELSE str[i]]

\* str.title(): a letter is upper case after a non-letter, lower case after a letter
StrTitle(str) ==
    [i \in DOMAIN str |->
        IF i > 1 /\ IsLetter(str[i - 1]) THEN ToLower(str[i]) ELSE ToUpper(str[i])]

\* str < str, by code points
RECURSIVE StrLess(_, _)
StrLess(a, b) ==
    IF Len(b) = 0 THEN FALSE
    ELSE IF Len(a) = 0 THEN TRUE
    ELSE IF a[1] = b[1] THEN StrLess(Tail(a), Tail(b))
    ELSE Ord(a[1]) < Ord(b[1])

DotJson == <<".", "j", "s", "o", "n">>

\* filename.endswith(".json")
EndsWithJson(filename) ==
    Len(filename) >= Len(DotJson)
    /\ SubSeq(filename, Len(filename) - Len(DotJson) + 1, Len(filename)) = DotJson

filename_from_trigger(trigger_display_name) ==
    StrReplace(StrLower(trigger_display_name), " ", "_")

pretty_name_from_filename(filename) ==
    LET base == IF EndsWithJson(filename)
                THEN SubSeq(filename, 1, Len(filename) - Len(DotJson))
                ELSE filename
    IN  StrTitle(StrReplace(base, "_", " "))

AcceleratedGrowth ==
    <<"A", "c", "c", "e", "l", "e", "r", "a", "t", "e", "d", " ", "G", "r", "o", "w", "t", "h">>

\* trigger_names after the loop over os.listdir and list.sort(), repetitions kept:
\* two files can have one display name
RECURSIVE SortedNameListDesc(_)
SortedNameListDesc(files) ==
    IF files = {} THEN <<>>
    ELSE LET last == CHOOSE f \in files : \A g \in files :
                         ~StrLess(pretty_name_from_filename(f), pretty_name_from_filename(g))
         IN  <<pretty_name_from_filename(last)>> \o SortedNameListDesc(files \ {last})
RECURSIVE SortedNameList(_)
SortedNameList(files) ==
    IF files = {} THEN <<>>
    ELSE LET least == CHOOSE f \in files : \A g \in files :
                          ~StrLess(pretty_name_from_filename(g), pretty_name_from_filename(f))
         IN  <<pretty_name_from_filename(least)>> \o SortedNameList(files \ {least})

\* get_available_triggers: the returned list and whether a message was shown.
\* dir is "ok", "missing" (os.path.isdir is false) or "unlistable" (os.listdir raises)
get_available_triggers(filesystem) ==
    IF filesystem.dir = "missing"
    THEN [names |-> <<AcceleratedGrowth>>, msg |-> "error_no_directory"]
    ELSE IF filesystem.dir = "unlistable"
    THEN [names |-> <<AcceleratedGrowth>>, msg |-> "error_listing"]
    ELSE LET trigger_names ==
                 SortedNameList({f \in DOMAIN filesystem.files : EndsWithJson(f)})
         IN  IF trigger_names = <<>>
             THEN [names |-> <<AcceleratedGrowth>>, msg |-> "warning_no_json"]
             ELSE [names |-> trigger_names, msg |-> "none"]

\* what json.load gives: no data (None), or a list of items
NoData == [kind |-> "none", items |-> <<>>]
DataList(items) == [kind |-> "list", items |-> items]

\* load_simulation_data: a file's content is "unparseable" or the list it holds
load_simulation_data(filesystem, trigger_filename_base) ==
    LET filename == trigger_filename_base \o DotJson
    IN  IF filename \notin DOMAIN filesystem.files
        THEN [data |-> NoData, msg |-> "error_file_not_found"]
        ELSE IF filesystem.files[filename].kind = "unparseable"
        THEN [data |-> NoData, msg |-> "error_parsing"]
        ELSE [data |-> filesystem.files[filename], msg |-> "none"]

----------------------------------------------------------------------------
(* community_network_assessment: the page of one run and the session state *)

\* the nine radio keys in the order of radio_button_keys_indices:
\* 1 conn_freq_radio, 2 info_flow_radio, 3 spont_comm_radio, 4 work_org_radio,
\* 5 group_trans_radio, 6 know_share_radio, 7 cent_conn_radio, 8 info_brok_radio,
\* 9 dec_mak_radio
Questions == 1..9

\* the option labels of a question, each with its position in the options dict
Label(q, option) == [question |-> q, option |-> option]

\* the value of a radio nothing is selected in
Unset == [question |-> 0, option |-> 0]

\* the options dict of question q: its five labels, mapped to 1..5
Options(q) == [l \in {Label(q, i) : i \in 1..5} |-> l.option]

\* a page before anything is shown on it
\*   msgs: the st.error, st.warning and st.info messages, in order
\*   scores: the final_scores shown as metrics, EmptyDict if none are
\*   graphs: the calls of display_demoviz_graph, in order
\*   matched: the result of find_matching_simulation_item, empty if it is not called
\*   strategies: the item whose strategy results are shown, NoMatch if none are
\*   selectbox, run_button, reset_button: the widgets shown
\*   options: the options of the selectbox, empty if it is not shown
\*   exc: the exception that ended the run, "none" if it ran to its end
\*   event: what started the run: "none" (the session opened), "radio",
\*     "submit", "select", "run", "reset", or "rerun" (st.rerun after a reset)
BlankPage ==
    [msgs |-> <<>>, scores |-> EmptyDict, graphs |-> <<>>, matched |-> <<>>,
     strategies |-> NoMatch, options |-> <<>>,
     selectbox |-> FALSE, run_button |-> FALSE, reset_button |-> FALSE, exc |-> "none",
     event |-> "none"]

\* the page at the start of a run
StartPage(event) == [BlankPage EXCEPT !.event = event.type]

\* the match-and-display step before it is applied
NoStep == [found |-> NoMatch, state |-> EmptyDict, page |-> BlankPage]

\* del st.session_state[k] for the keys of K that are in it
DelKeys(state, K) == [k \in (DOMAIN state) \ K |-> state[k]]

\* st.session_state[k] = v
SetKey(state, k, v) == (k :> v) @@ state

\* the lookups of lines 398-406 raise KeyError on a label that is no key
AllAnswered(answers) == \A q \in Questions : answers[q] \in DOMAIN Options(q)

\* the mean of the answers of three questions, in thirds: 3 * (a + b + c) / 3
Mean3(answers, q1, q2, q3) ==
    Options(q1)[answers[q1]] + Options(q2)[answers[q2]] + Options(q3)[answers[q3]]

\* st.session_state.final_scores of the answers
FinalScoresSwapped(answers) ==
    ("Connectivity" :> Mean3(answers, 1, 2, 3))
    @@ ("Clustering" :> Mean3(answers, 7, 8, 9))
    @@ ("Centrality" :> Mean3(answers, 4, 5, 6))
FinalScores(answers) ==
    ("Connectivity" :> Mean3(answers, 1, 2, 3))
    @@ ("Clustering" :> Mean3(answers, 4, 5, 6))
    @@ ("Centrality" :> Mean3(answers, 7, 8, 9))

\* lines 398-418, after the persisted_* keys are set
SubmitScores(state, page, answers) ==
    IF ~AllAnswered(answers)
    THEN [state |-> state, page |-> [page EXCEPT !.exc = "KeyError"]]
    ELSE [state |-> DelKeys(SetKey(state, "final_scores", FinalScores(answers)),
                            {"simulation_run", "current_simulation_item"}),
          page |-> page]

\* the body of "if st.button(... submit_questionnaire)": a run is [state, page];
\* the nine persisted_* keys are kept as the one key "persisted"
SubmitBlock(run, answers) ==
    SubmitScores(SetKey(SetKey(run.state, "questionnaire_submitted", TRUE), "persisted", answers),
                 run.page, answers)

\* "if simulation_data:": None and the empty list are falsy
DataTruthy(simulation_data) ==
    simulation_data.kind = "list" /\ Len(simulation_data.items) > 0

\* "if matched_item:": None and the empty record are falsy
ItemTruthy(matched_item) == matched_item # NoMatch /\ TruthyDict(matched_item.d)

\* matched_item['scores']['centrality'] and the two others of line 472 succeed
HasAllScores(matched_item) ==
    /\ "scores" \in DOMAIN matched_item.d
    /\ {"centrality", "connectivity", "clustering"} \subseteq DOMAIN matched_item.d["scores"]

\* "k in d and d[k]" for a graph-valued key
HasGraph(d, k) == k \in DOMAIN d /\ Truthy(d[k])

\* one more call of display_demoviz_graph on the page
ShowGraph(page, key_suffix, graph_data, baseline_graph_data) ==
    [page EXCEPT !.graphs = @ \o <<[key |-> key_suffix, graph |-> graph_data,
                                    baseline |-> baseline_graph_data,
                                    view |-> display_demoviz_graph(graph_data, baseline_graph_data)]>>]

ShowMsg(page, msg) == [page EXCEPT !.msgs = @ \o <<msg>>]

\* lines 473-476
ShowTypical(page, d) ==
    IF HasGraph(d, "typical_graph_demoviz")
    THEN ShowGraph(page, "typical_main", d["typical_graph_demoviz"], None)
    ELSE ShowMsg(page, "warning_no_typical_graph")

\* lines 479-485
ShowDoubled(page, d) ==
    IF HasGraph(d, "doubled_size_typical_graph_demoviz")
    THEN ShowGraph(page, "doubled_typical", d["doubled_size_typical_graph_demoviz"], None)
    ELSE ShowMsg(page, "info_no_doubled_graph")

\* lines 489-491
RunButton(state, matched_item, run_pressed) ==
    IF run_pressed
    THEN SetKey(SetKey(state, "simulation_run", TRUE), "current_simulation_item", matched_item)
    ELSE state

\* lines 471-495, matched_item found
MatchedBlock(run, matched_item, run_pressed) ==
    IF ItemTruthy(matched_item)
    THEN IF ~HasAllScores(matched_item)
         THEN [state |-> run.state, page |-> [run.page EXCEPT !.exc = "KeyError"]]
         ELSE [state |-> RunButton(run.state, matched_item, run_pressed),
               page |-> [ShowDoubled(ShowTypical(run.page, matched_item.d), matched_item.d)
                           EXCEPT !.run_button = TRUE]]
    ELSE [state |-> DelKeys(run.state, {"simulation_run", "current_simulation_item"}),
          page |-> ShowMsg(run.page, "warning_no_match")]

\* lines 464-495: the call of the selector and what follows it
AfterMatch(run, matched_item, run_pressed) ==
    MatchedBlock([state |-> run.state, page |-> [run.page EXCEPT !.matched = <<matched_item>>]],
                 matched_item, run_pressed)

\* lines 463-500: match the loaded data and show the matched item's graphs;
\* run_pressed: the run was started by the Run Simulation button
MatchBlockKeep(run, simulation_data, scores, run_pressed) ==
    IF DataTruthy(simulation_data)
    THEN AfterMatch(run,
                    find_matching_simulation_item(simulation_data.items,
                        scores["Centrality"], scores["Connectivity"], scores["Clustering"]),
                    run_pressed)
    ELSE [state |-> run.state, page |-> ShowMsg(run.page, "error_could_not_load")]
MatchBlock(run, simulation_data, scores, run_pressed) ==
    IF DataTruthy(simulation_data)
    THEN AfterMatch(run,
                    find_matching_simulation_item(simulation_data.items,
                        scores["Centrality"], scores["Connectivity"], scores["Clustering"]),
                    run_pressed)
    ELSE [state |-> DelKeys(run.state, {"simulation_run", "current_simulation_item"}),
          page |-> ShowMsg(run.page, "error_could_not_load")]

\* the loop over simulation_output_table from entry i on
RECURSIVE ShowEntries(_, _, _, _)
ShowEntries(page, simulation_output_table, i, baseline_for_strategies) ==
    IF i > Len(simulation_output_table) THEN page
    ELSE LET entry == simulation_output_table[i]
         IN  ShowEntries(IF HasGraph(entry, "resulting_graph_demoviz")
                         THEN ShowGraph(page, "resulting", entry["resulting_graph_demoviz"],
                                        baseline_for_strategies)
                         ELSE page,
                         simulation_output_table, i + 1, baseline_for_strategies)

\* lines 503-527, for the item in the session
ShowStrategies(run, current_sim_item_for_display) ==
    [state |-> run.state,
     page |-> IF Len(Get(current_sim_item_for_display.d, "simulation_output_table", <<>>)) > 0
              THEN ShowEntries([run.page EXCEPT !.strategies = current_sim_item_for_display],
                               current_sim_item_for_display.d["simulation_output_table"], 1,
                               Get(current_sim_item_for_display.d, "typical_graph_demoviz", None))
              ELSE ShowMsg([run.page EXCEPT !.strategies = current_sim_item_for_display],
                           "info_no_simulation_output")]

\* lines 502-527: the strategy results of st.session_state.current_simulation_item
StrategyBlock(run) ==
    IF Get(run.state, "simulation_run", FALSE) /\ "current_simulation_item" \in DOMAIN run.state
    THEN ShowStrategies(run, run.state["current_simulation_item"])
    ELSE run

\* x in list
InList(x, list) == \E i \in DOMAIN list : list[i] = x

\* a message of get_available_triggers or load_simulation_data, if it shows one
ShowIfAny(page, msg) == IF msg = "none" THEN page ELSE ShowMsg(page, msg)

\* lines 449-458: the trigger the selectbox returns. event is what started the
\* run: a trigger chosen in the selectbox ([type |-> "select", trigger |-> t]),
\* a button, or a radio; the selectbox keeps the stored trigger otherwise
SelectedTrigger(state, event, available_triggers) ==
    IF event.type = "select" THEN event.trigger
    ELSE IF "simulation_trigger" \notin DOMAIN state
            \/ ~InList(state["simulation_trigger"], available_triggers)
    THEN available_triggers[1]
    ELSE state["simulation_trigger"]

\* lines 502-527, which a run that raised does not reach
ThenStrategies(run) == IF run.page.exc # "none" THEN run ELSE StrategyBlock(run)

\* lines 461-527
ResultsLoaded(run, event, loaded) ==
    ThenStrategies(MatchBlock([state |-> run.state, page |-> ShowIfAny(run.page, loaded.msg)],
                              loaded.data, run.state["final_scores"], event.type = "run"))

\* lines 458-527
ResultsSelected(run, event, filesystem, selected_trigger_display) ==
    ResultsLoaded([state |-> SetKey(run.state, "simulation_trigger", selected_trigger_display),
                   page |-> [run.page EXCEPT !.selectbox = TRUE]],
                  event,
                  load_simulation_data(filesystem, filename_from_trigger(selected_trigger_display)))

\* lines 441-527
ResultsAvailable(run, event, filesystem, available) ==
    ResultsSelected([state |-> run.state,
                     page |-> ShowIfAny([run.page EXCEPT !.scores = run.state["final_scores"],
                                                         !.options = available.names],
                                        available.msg)],
                    event, filesystem, SelectedTrigger(run.state, event, available.names))

\* lines 420-527: the scores, the trigger selector, the match and the strategies
ResultsBlock(run, event, filesystem) ==
    IF Get(run.state, "questionnaire_submitted", FALSE) /\ "final_scores" \in DOMAIN run.state
    THEN ResultsAvailable(run, event, filesystem, get_available_triggers(filesystem))
    ELSE run

\* line 529: the Reset button, which a run that raised does not reach
ResetButton(run) ==
    IF run.page.exc # "none" THEN run ELSE [run EXCEPT !.page.reset_button = TRUE]

\* lines 420-529
AfterSubmit(run, event, filesystem) ==
    IF run.page.exc # "none" THEN run ELSE ResetButton(ResultsBlock(run, event, filesystem))

\* one run of the script
Script(state, answers, event, filesystem) ==
    AfterSubmit(IF event.type = "submit"
                THEN SubmitBlock([state |-> state, page |-> StartPage(event)], answers)
                ELSE [state |-> state, page |-> StartPage(event)],
                event, filesystem)

\* the Reset button: every key is deleted, the two flags are set, and
\* st.rerun() runs the script again, which sets the nine radio keys to None
AllUnset == [q \in Questions |-> Unset]

StateAfterReset == ("questionnaire_submitted" :> FALSE) @@ ("simulation_run" :> FALSE)

----------------------------------------------------------------------------
(* The files of the session *)

FileName(base) == base \o DotJson

GraphA == ("nodes" :> <<NodeA>>) @@ ("edges" :> <<>>)
GraphAC == ("nodes" :> <<NodeA, NodeC>>) @@ ("edges" :> <<EdgeAC>>)

Scores(centrality, connectivity, clustering) ==
    ("centrality" :> centrality) @@ ("connectivity" :> connectivity)
    @@ ("clustering" :> clustering)

\* a complete record: scores, both graphs and two strategies
ItemHub ==
    ("scores" :> Scores(5, 3, 1))
    @@ ("typical_graph_demoviz" :> GraphA)
    @@ ("doubled_size_typical_graph_demoviz" :> GraphAC)
    @@ ("simulation_output_table" :>
          << ("Suggested Strategies" :> "s1") @@ ("resulting_graph_demoviz" :> GraphAC),
             ("Suggested Strategies" :> "s2") >>)

\* a record without the doubled graph
ItemFlat ==
    ("scores" :> Scores(4, 3, 1))
    @@ ("typical_graph_demoviz" :> GraphAC)
    @@ ("simulation_output_table" :>
          << ("Suggested Strategies" :> "s3") @@ ("resulting_graph_demoviz" :> GraphA) >>)

\* a record without scores
ItemNoScores == ("typical_graph_demoviz" :> GraphA)

Unparseable == [kind |-> "unparseable", items |-> <<>>]

NameA == <<"a">>
NameB == <<"B">>
NameAB == <<"a", "_", "b">>
NameAcc == <<"a", "c", "c", "e", "l", "e", "r", "a", "t", "e", "d", "_",
             "g", "r", "o", "w", "t", "h">>

FileSystems ==
    { [dir |-> "missing", files |-> EmptyDict],
      [dir |-> "ok",
       files |-> (FileName(NameAcc) :> DataList(<<Item(1, ItemHub), Item(2, ItemFlat)>>))
                 @@ (FileName(NameAB) :> DataList(<<Item(1, ItemNoScores)>>))],
      [dir |-> "ok",
       files |-> (FileName(NameA) :> DataList(<<>>))
                 @@ (FileName(NameB) :> DataList(<<Item(1, ItemFlat)>>))
                 @@ (<<"n", ".", "t", "x", "t">> :> Unparseable)],
      [dir |-> "ok",
       files |-> (FileName(NameA) :> Unparseable)
                 @@ (FileName(NameAB) :> DataList(<<Item(1, EmptyDict), Item(2, ItemHub)>>))],
      [dir |-> "ok", files |-> EmptyDict],
      [dir |-> "ok", files |-> (<<"n", ".", "t", "x", "t">> :> Unparseable)],
      [dir |-> "unlistable",
       files |-> (FileName(NameAcc) :> DataList(<<Item(1, ItemFlat)>>))
                 @@ (FileName(NameA) :> DataList(<<Item(1, ItemHub)>>))],
      [dir |-> "ok",
       files |-> (FileName(NameAB) :> DataList(<<Item(1, ItemHub)>>))
                 @@ (FileName(<<"a", " ", "b">>) :> DataList(<<Item(1, ItemFlat)>>))
                 @@ (FileName(<<"a", "a">>) :> DataList(<<Item(1, ItemFlat)>>))] }

----------------------------------------------------------------------------
(* The session: one action per interaction of the user, each followed by    *)
(* the run of the script it starts                                          *)

\* the labels the user of the model picks for a question
Picks(q) ==
    CASE q = 1 -> {Label(1, 2)}
      [] q = 2 -> {Label(2, 3)}
      [] q = 3 -> {Label(3, 4)}
      [] q \in 4..6 -> {Label(q, 1)}
      [] q \in 7..8 -> {Label(q, 5)}
      [] OTHER -> {Label(q, 3), Label(q, 5)}

\* the user of the model answers the questions from the top: a question is
\* first answered when those above it are
InOrder(q) == \A p \in 1..(q - 1) : radio[p] # Unset

SessionIdle ==
    /\ fs = [dir |-> "missing", files |-> EmptyDict]
    /\ radio = AllUnset
    /\ ss = EmptyDict
    /\ shown = BlankPage

\* the session after the first run of the script
SessionInit ==
    /\ fs \in FileSystems
    /\ radio = AllUnset
    /\ ss = StateAfterReset
    /\ shown = Script(StateAfterReset, AllUnset, [type |-> "none"], fs).page

\* the session after a run
AfterRun(run, answers) ==
    /\ ss' = run.state
    /\ shown' = run.page
    /\ radio' = answers
    /\ UNCHANGED fs
    /\ UNCHANGED <<matchVars, graphVars>>

\* the run an interaction starts, with the values the radios have in it
RunScript(answers, event) == AfterRun(Script(ss, answers, event, fs), answers)

SelectRadio ==
    \E q \in Questions : \E l \in Picks(q) :
        /\ InOrder(q)
        /\ radio[q] # l
        /\ RunScript([radio EXCEPT ![q] = l], [type |-> "radio"])

PressSubmit == RunScript(radio, [type |-> "submit"])

SelectTrigger ==
    /\ shown.selectbox
    /\ \E i \in DOMAIN get_available_triggers(fs).names :
          /\ get_available_triggers(fs).names[i] # ss["simulation_trigger"]
          /\ RunScript(radio, [type |-> "select",
                               trigger |-> get_available_triggers(fs).names[i]])

PressRun ==
    /\ shown.run_button
    /\ RunScript(radio, [type |-> "run"])

\* lines 529-538 at the end of the run the Reset button starts: a run that
\* raised does not reach them; otherwise every key is deleted, the two flags
\* are set and st.rerun() starts the next run
ResetKeepsTrigger(run) ==
    IF run.page.exc # "none"
    THEN AfterRun(run, radio)
    ELSE AfterRun(Script(DelKeys(run.state, (DOMAIN run.state) \ {"simulation_trigger"})
                             @@ StateAfterReset,
                         AllUnset, [type |-> "rerun"], fs), AllUnset)
ResetAndRerun(run) ==
    IF run.page.exc # "none"
    THEN AfterRun(run, radio)
    ELSE AfterRun(Script(StateAfterReset, AllUnset, [type |-> "rerun"], fs), AllUnset)

PressReset ==
    /\ shown.reset_button
    /\ ResetAndRerun(Script(ss, radio, [type |-> "reset"], fs))

Next == SelectRadio \/ PressSubmit \/ SelectTrigger \/ PressRun \/ PressReset

MatchIdle ==
    /\ mPc = "off" /\ mItems = <<>> /\ mScores = EmptyDict
    /\ mOut = NoStep

Init == SessionInit /\ GraphIdle /\ MatchIdle

\* the session of one user
Spec == Init /\ [][Next]_vars

----------------------------------------------------------------------------
(* The match-and-display step on its own: the list and the scores are drawn *)
(* in the initial state and one action applies the step                     *)

ScoreKeys == {"centrality", "connectivity", "clustering"}

\* the scores of the candidates: complete ones, and ones with fields missing
FullScores == [ScoreKeys -> {1, 5}]
PartialScores == UNION {[K -> {3}] : K \in (SUBSET ScoreKeys) \ {ScoreKeys}}

\* the candidate records: with a scores field, without one, the empty record,
\* and one with no graph
ItemDicts ==
    { ("scores" :> sc) @@ ("typical_graph_demoviz" :> GraphA) : sc \in FullScores \cup PartialScores }
    \cup { ItemNoScores, EmptyDict, ("scores" :> Scores(1, 1, 1)) }

\* the candidate lists, each element tagged with its position
ItemLists ==
    UNION { { [i \in 1..k |-> Item(i, f[i])] : f \in [1..k -> ItemDicts] } : k \in 0..MaxItems }

\* the query scores, in thirds: 1, 3 and 4 2/3
QueryThirds == {3, 9, 14}

Queries ==
    { ("Connectivity" :> n) @@ ("Clustering" :> l) @@ ("Centrality" :> c) :
          n \in QueryThirds, l \in QueryThirds, c \in QueryThirds }

\* the session states the step starts from: Run Simulation was never pressed,
\* or it was pressed in an earlier run and its item is still in the session
PriorStates ==
    { StateAfterReset,
      ("questionnaire_submitted" :> TRUE) @@ ("simulation_run" :> TRUE)
          @@ ("current_simulation_item" :> Item(1, ItemHub)) }

MatchInit ==
    /\ mItems \in ItemLists
    /\ mScores \in Queries
    /\ mOut \in {[found |-> NoMatch, state |-> st, page |-> BlankPage] : st \in PriorStates}
    /\ mPc = "call"

StepResult(found, run) == [found |-> found, state |-> run.state, page |-> run.page]

\* lines 463-527 on the loaded list, in a run that Run Simulation did not
\* start, and the selector's own result for the list
MatchAndDisplay ==
    /\ mPc = "call"
    /\ mOut' = StepResult(find_matching_simulation_item(mItems, mScores["Centrality"],
                              mScores["Connectivity"], mScores["Clustering"]),
                          ThenStrategies(MatchBlock([state |-> mOut.state, page |-> BlankPage],
                                                    DataList(mItems), mScores, FALSE)))
    /\ mPc' = "done"
    /\ UNCHANGED <<mItems, mScores>>
    /\ UNCHANGED <<graphVars, sessionVars>>

InitMatch == MatchInit /\ GraphIdle /\ SessionIdle

NextMatch == MatchAndDisplay

\* the selector and its caller on every list and query of the bounds
SpecMatch == InitMatch /\ [][NextMatch]_vars

InitGraph == GraphInit /\ SessionIdle /\ MatchIdle

NextGraph == Display

\* display_demoviz_graph on every target graph and baseline of the bounds
SpecGraph == InitGraph /\ [][NextGraph]_vars

----------------------------------------------------------------------------
(* The selector: C1, C4, C5, C6, C7 *)

\* an item's score in a dimension as the selector reads it
ItemScore(item, k) ==
    IF "scores" \in DOMAIN item.d /\ k \in DOMAIN item.d["scores"]
    THEN item.d["scores"][k]
    ELSE MissingScore

\* 9 times the squared distance of an item to the query of the state
QueryDist(item) ==
    (3 * ItemScore(item, "centrality") - mScores["Centrality"])
        * (3 * ItemScore(item, "centrality") - mScores["Centrality"])
    + (3 * ItemScore(item, "connectivity") - mScores["Connectivity"])
        * (3 * ItemScore(item, "connectivity") - mScores["Connectivity"])
    + (3 * ItemScore(item, "clustering") - mScores["Clustering"])
        * (3 * ItemScore(item, "clustering") - mScores["Clustering"])

Matched == mPc = "done" /\ Len(mItems) > 0

\* C1: for every query and every non-empty candidate list, the selector returns
\* an item of the list whose squared distance to the query is at most that of
\* every candidate of the list.
C1_NearestMatch ==
    Matched =>
        /\ \E i \in DOMAIN mItems : mItems[i] = mOut.found
        /\ \A j \in DOMAIN mItems : QueryDist(mOut.found) <= QueryDist(mItems[j])

\* the second candidate is strictly closer than the first and is returned
C1_Witness ==
    /\ Matched
    /\ Len(mItems) = 2
    /\ QueryDist(mItems[2]) < QueryDist(mItems[1])
    /\ mOut.found = mItems[2]

\* C4: among the candidates at the minimum distance the selector returns the
\* one that comes first in the list; for [(1,1,1), (5,5,5)] and the query
\* (3,3,3) that is the first of the two.
C4_FirstOfTies ==
    Matched =>
        \A j \in DOMAIN mItems :
            (\A k \in DOMAIN mItems : QueryDist(mItems[j]) <= QueryDist(mItems[k]))
                => mOut.found.tag <= j

\* the candidates (1,1,1) and (5,5,5), the query (3,3,3): both at 12, the first returned
C4_Witness ==
    /\ Matched
    /\ Len(mItems) = 2
    /\ ItemScore(mItems[1], "centrality") = 1 /\ ItemScore(mItems[1], "connectivity") = 1
    /\ ItemScore(mItems[1], "clustering") = 1
    /\ ItemScore(mItems[2], "centrality") = 5 /\ ItemScore(mItems[2], "connectivity") = 5
    /\ ItemScore(mItems[2], "clustering") = 5
    /\ mScores["Centrality"] = 9 /\ mScores["Connectivity"] = 9 /\ mScores["Clustering"] = 9
    /\ QueryDist(mItems[1]) = 9 * 12 /\ QueryDist(mItems[2]) = 9 * 12
    /\ mOut.found = mItems[1]

\* C5: for the empty candidate list the selector returns "no match" and raises
\* nothing, and the caller shows a message and no graph, neither of a matched
\* item nor of an item an earlier run left in the session.
C5_EmptyListNoMatch ==
    (mPc = "done" /\ mItems = <<>>) =>
        /\ mOut.found = NoMatch
        /\ mOut.page.exc = "none"
        /\ mOut.page.msgs # <<>>
        /\ mOut.page.graphs = <<>>
        /\ mOut.page.strategies = NoMatch
        /\ ~mOut.page.run_button

\* the step was applied to the empty list in a session that held the item of
\* an earlier Run Simulation, and its message is on the page
C5_Witness ==
    /\ mPc = "done"
    /\ mItems = <<>>
    /\ "current_simulation_item" \notin DOMAIN mOut.state
    /\ "questionnaire_submitted" \in DOMAIN mOut.state
    /\ mOut.state["questionnaire_submitted"]
    /\ mOut.page.msgs = <<"error_could_not_load">>

\* a candidate with its three score fields (all candidates of the model have
\* their scores in 1..5)
Complete(item) ==
    /\ "scores" \in DOMAIN item.d
    /\ \A k \in ScoreKeys : k \in DOMAIN item.d["scores"] /\ item.d["scores"][k] \in 1..5

\* C6: when the list holds a candidate with all three score fields in 1..5, the
\* selector never returns a candidate that lacks a score field, for every query
\* with scores in 1..5.
C6_IncompleteExcluded ==
    (Matched /\ \E j \in DOMAIN mItems : Complete(mItems[j])) => Complete(mOut.found)

\* a candidate without score fields comes first and the complete one is returned
C6_Witness ==
    /\ Matched
    /\ Len(mItems) = 2
    /\ ~Complete(mItems[1])
    /\ Complete(mItems[2])
    /\ mOut.found = mItems[2]

\* C7: for every non-empty list of records, records without scores among them,
\* the match-and-display step ends without an unhandled error.
C7_NoRecordIsFatal == Matched => mOut.page.exc = "none"

----------------------------------------------------------------------------
(* The questionnaire: C8, C9 *)

\* C8: whenever the questionnaire is submitted, each of the nine answers holds
\* one of its five option labels, so no lookup of a label fails.
C8_AnswersSetOnSubmit ==
    "persisted" \in DOMAIN ss =>
        \A q \in Questions : \E i \in 1..5 : ss["persisted"][q] = Label(q, i)

\* the value of the answer to question q that was submitted
Answer(q) == ss["persisted"][q].option

\* C9: after a submission each score is the mean of the three answers of its
\* own group: three times the score (the count of thirds the model keeps) is
\* the sum of the three answers, and the score lies between 1 and 5.
C9_ScoresAreGroupMeans ==
    "final_scores" \in DOMAIN ss =>
        /\ ss["final_scores"]["Connectivity"] = Answer(1) + Answer(2) + Answer(3)
        /\ ss["final_scores"]["Clustering"] = Answer(4) + Answer(5) + Answer(6)
        /\ ss["final_scores"]["Centrality"] = Answer(7) + Answer(8) + Answer(9)
        /\ \A k \in DOMAIN ss["final_scores"] :
               3 * 1 <= ss["final_scores"][k] /\ ss["final_scores"][k] <= 3 * 5

\* the answers {2,3,4}, {1,1,1} and {5,5,5} were submitted: scores 3, 1 and 5
C9_Witness ==
    /\ "final_scores" \in DOMAIN ss
    /\ {Answer(1), Answer(2), Answer(3)} = {2, 3, 4}
    /\ {Answer(4), Answer(5), Answer(6)} = {1}
    /\ {Answer(7), Answer(8), Answer(9)} = {5}
    /\ ss["final_scores"]["Connectivity"] = 3 * 3
    /\ ss["final_scores"]["Clustering"] = 3 * 1
    /\ ss["final_scores"]["Centrality"] = 3 * 5

----------------------------------------------------------------------------
(* The graph diff: C2, C3, C10 *)

\* the record of the target graph a Node or an Edge was made from
NodeRecord(n) == gGraph["nodes"][n.idx + 1]
EdgeRecord(e) == gGraph["edges"][e.idx + 1]

\* a baseline is present: one was passed and it is not the empty record, which
\* the code takes for no baseline
BaselinePresent == gBaseline # None /\ gBaseline # EmptyDict

\* the ids of the baseline's nodes, as strings
BaselineIds ==
    LET nodes == IF BaselinePresent /\ "nodes" \in DOMAIN gBaseline
                 THEN gBaseline["nodes"] ELSE <<>>
    IN  {Str(nodes[i]["id"]) : i \in {j \in DOMAIN nodes : NodeValid(nodes[j])}}

\* the unordered pairs of the baseline's edges
BaselinePairs ==
    LET edges == IF BaselinePresent /\ "edges" \in DOMAIN gBaseline
                 THEN gBaseline["edges"] ELSE <<>>
    IN  {{Str(edges[i]["source"]), Str(edges[i]["target"])} :
            i \in {j \in DOMAIN edges : EdgeValid(edges[j])}}

Displayed == gPc = "done" /\ Truthy(gGraph)

\* C2: every valid target node is classified, and it is classified as new if
\* and only if a baseline is present and the node's id, as a string, is not
\* among the ids of the baseline's nodes; without a baseline no node is new.
C2_NewNodes ==
    Displayed =>
        /\ \A j \in DOMAIN gGraph["nodes"] :
               NodeValid(gGraph["nodes"][j]) =>
                   \E i \in DOMAIN gOut.nodes_viz : gOut.nodes_viz[i].idx = j - 1
        /\ \A i \in DOMAIN gOut.nodes_viz :
               gOut.nodes_viz[i].is_new <=>
                   (BaselinePresent /\ Str(NodeRecord(gOut.nodes_viz[i])["id"]) \notin BaselineIds)

\* with a baseline holding the id "1", the node with the integer id 1 is not
\* new and another node of the same graph is
C2_Witness ==
    /\ Displayed
    /\ BaselinePresent
    /\ \E i, j \in DOMAIN gOut.nodes_viz :
          /\ NodeRecord(gOut.nodes_viz[i])["id"] = JInt(1)
          /\ ~gOut.nodes_viz[i].is_new
          /\ gOut.nodes_viz[j].is_new

\* C3: a valid target edge is classified as new if and only if a baseline is
\* present and the unordered pair of its ends is not among the unordered pairs
\* of the baseline's edges, whatever the direction and the type of the edges;
\* without a baseline no edge is new.
C3_NewEdges ==
    Displayed =>
        /\ \A j \in DOMAIN gGraph["edges"] :
               EdgeValid(gGraph["edges"][j]) =>
                   \E i \in DOMAIN gOut.edges_viz : gOut.edges_viz[i].idx = j - 1
        /\ \A i \in DOMAIN gOut.edges_viz :
               gOut.edges_viz[i].is_new <=>
                   (BaselinePresent
                    /\ {Str(EdgeRecord(gOut.edges_viz[i])["source"]),
                        Str(EdgeRecord(gOut.edges_viz[i])["target"])} \notin BaselinePairs)

\* the edge (C,A) is not new against a baseline whose only edge is (A,C), of
\* another type
C3_Witness ==
    /\ Displayed
    /\ BaselinePresent
    /\ "edges" \in DOMAIN gBaseline
    /\ gBaseline["edges"] = <<EdgeAC @@ ("type" :> "hub_interlink")>>
    /\ Len(gOut.edges_viz) = 1
    /\ gOut.edges_viz[1].source = "C" /\ gOut.edges_viz[1].target = "A"
    /\ "type" \notin DOMAIN EdgeRecord(gOut.edges_viz[1])
    /\ ~gOut.edges_viz[1].is_new

\* the roles and the types that have a style of their own, with that style
\* (widths in tenths)
StyledRoles ==
    ("initial_hub" :> [color |-> "#FFA500", size |-> 20])
    @@ ("polycentric_hub" :> [color |-> "#FFD700", size |-> 22])
    @@ ("central_hub" :> [color |-> "#FF4500", size |-> 25])
    @@ ("emergent_hub" :> [color |-> "#FF8C00", size |-> 20])
    @@ ("spoke_node" :> [color |-> "#87CEEB", size |-> 15])

StyledTypes ==
    ("spanning_tree_link" :> [color |-> "#A9A9A9", width |-> 10, dashes |-> FALSE])
    @@ ("clustering_link" :> [color |-> "#4682B4", width |-> 20, dashes |-> FALSE])
    @@ ("local_cluster_link" :> [color |-> "#4682B4", width |-> 20, dashes |-> FALSE])
    @@ ("hub_connection" :> [color |-> "#FF8C00", width |-> 20, dashes |-> FALSE])
    @@ ("spoke_connection" :> [color |-> "#FF8C00", width |-> 20, dashes |-> FALSE])
    @@ ("hub_interlink" :> [color |-> "#FF4500", width |-> 25, dashes |-> FALSE])
    @@ ("sync_enhancement_link" :> [color |-> "#20B2AA", width |-> 10, dashes |-> FALSE])
    @@ ("shortcut_link" :> [color |-> "#9370DB", width |-> 20, dashes |-> TRUE])
    @@ ("preferential_attachment_link" :> [color |-> "#3CB371", width |-> 15, dashes |-> FALSE])
    @@ ("random_link" :> [color |-> "#E0E0E0", width |-> 10, dashes |-> FALSE])
    @@ ("generic_added_link" :> [color |-> "#006400", width |-> 20, dashes |-> FALSE])

RoleOf(n) == IF "role" \in DOMAIN NodeRecord(n) THEN NodeRecord(n)["role"] ELSE "default_node"
TypeOf(e) == IF "type" \in DOMAIN EdgeRecord(e) THEN EdgeRecord(e)["type"] ELSE "default_link"

\* C10: a node or an edge with a styled role or type has that tag's style
\* whether or not it is new, and the highlight of new items (green node, blue
\* edge of width 2.5) is on exactly the new nodes and edges that are generic.
C10_TagsBeforeNew ==
    Displayed =>
        /\ \A i \in DOMAIN gOut.nodes_viz :
              LET n == gOut.nodes_viz[i]
              IN  /\ RoleOf(n) \in DOMAIN StyledRoles =>
                         [color |-> n.color, size |-> n.size] = StyledRoles[RoleOf(n)]
                  /\ n.color = "#32CD32" <=> (n.is_new /\ RoleOf(n) = "default_node")
        /\ \A i \in DOMAIN gOut.edges_viz :
              LET e == gOut.edges_viz[i]
              IN  /\ TypeOf(e) \in DOMAIN StyledTypes =>
                         [color |-> e.color, width |-> e.width, dashes |-> e.dashes]
                             = StyledTypes[TypeOf(e)]
                  /\ (e.color = "#0000FF" /\ e.width = 25)
                         <=> (e.is_new /\ TypeOf(e) = "default_link")

\* a new node with the role central_hub keeps that role's style, beside a new
\* generic node that is green
C10_Witness ==
    /\ Displayed
    /\ \E i, j \in DOMAIN gOut.nodes_viz :
          /\ gOut.nodes_viz[i].is_new
          /\ RoleOf(gOut.nodes_viz[i]) = "central_hub"
          /\ gOut.nodes_viz[i].color = "#FF4500"
          /\ gOut.nodes_viz[j].is_new
          /\ RoleOf(gOut.nodes_viz[j]) = "default_node"
          /\ gOut.nodes_viz[j].color = "#32CD32"

----------------------------------------------------------------------------
(* Malformed records: C11 *)

\* the indices (from 0) of the records of a list that a loop accepts, in order
ValidNodeIdx(nodes_data) ==
    SelectSeq([i \in 1..Len(nodes_data) |-> i - 1], LAMBDA k : NodeValid(nodes_data[k + 1]))
ValidEdgeIdx(edges_data) ==
    SelectSeq([i \in 1..Len(edges_data) |-> i - 1], LAMBDA k : EdgeValid(edges_data[k + 1]))

\* the warnings of the records of a list that a loop rejects, in order
NodeWarnings(nodes_data) ==
    SelectSeq([i \in 1..Len(nodes_data) |-> [kind |-> "invalid_node", idx |-> i - 1]],
              LAMBDA w : ~NodeValid(nodes_data[w.idx + 1]))
EdgeWarnings(edges_data) ==
    SelectSeq([i \in 1..Len(edges_data) |-> [kind |-> "invalid_edge", idx |-> i - 1]],
              LAMBDA w : ~EdgeValid(edges_data[w.idx + 1]))

\* what the renderer is called with: nothing when agraph is not called
PassedNodes == IF gOut.rendered THEN gOut.nodes_viz ELSE <<>>
PassedEdges == IF gOut.rendered THEN gOut.edges_viz ELSE <<>>

\* the Nodes and Edges are those of the valid records, once each, in input order
NodesInOrder(viz) ==
    /\ [i \in DOMAIN viz |-> viz[i].idx] = ValidNodeIdx(gGraph["nodes"])
    /\ \A i \in DOMAIN viz : viz[i].id = Str(NodeRecord(viz[i])["id"])
EdgesInOrder(viz) ==
    /\ [i \in DOMAIN viz |-> viz[i].idx] = ValidEdgeIdx(gGraph["edges"])
    /\ \A i \in DOMAIN viz : /\ viz[i].source = Str(EdgeRecord(viz[i])["source"])
                             /\ viz[i].target = Str(EdgeRecord(viz[i])["target"])

\* every malformed record has its one warning, and no valid record has one
OneWarningEach ==
    SelectSeq(gOut.warnings, LAMBDA w : w.kind \in {"invalid_node", "invalid_edge"})
        = NodeWarnings(gGraph["nodes"]) \o EdgeWarnings(gGraph["edges"])

\* the target graph holds a malformed node or edge record
HasMalformed ==
    NodeWarnings(gGraph["nodes"]) \o EdgeWarnings(gGraph["edges"]) # <<>>

\* C11 as stated: in a target graph with malformed records, each of them is
\* skipped with one warning, and every valid node and every valid edge of the
\* graph is passed to the renderer exactly once, in input order.
C11_AllValidRendered ==
    (Displayed /\ HasMalformed) =>
        /\ OneWarningEach
        /\ NodesInOrder(PassedNodes)
        /\ EdgesInOrder(PassedEdges)

\* C11, amended: every malformed record is skipped with one warning; when the
\* target graph has at least one valid node, every valid node and every valid
\* edge is passed to the renderer exactly once, in input order; when it has no
\* valid node the renderer is not called and one more warning says so.
C11_ValidRenderedIfAnyNode ==
    Displayed =>
        /\ OneWarningEach
        /\ IF ValidNodeIdx(gGraph["nodes"]) # <<>>
           THEN /\ gOut.rendered
                /\ NodesInOrder(PassedNodes)
                /\ EdgesInOrder(PassedEdges)
                /\ \A i \in DOMAIN gOut.warnings : gOut.warnings[i].kind # "no_valid_nodes"
           ELSE /\ ~gOut.rendered
                /\ gOut.warnings[Len(gOut.warnings)].kind = "no_valid_nodes"

\* a malformed node comes before a valid one and a malformed edge before a
\* valid one: two warnings, and the valid node and the valid edge are rendered
C11_Witness ==
    /\ Displayed
    /\ Len(gGraph["nodes"]) = 2 /\ Len(gGraph["edges"]) = 2
    /\ ~NodeValid(gGraph["nodes"][1]) /\ NodeValid(gGraph["nodes"][2])
    /\ ~EdgeValid(gGraph["edges"][1]) /\ EdgeValid(gGraph["edges"][2])
    /\ gOut.rendered
    /\ Len(PassedNodes) = 1 /\ PassedNodes[1].idx = 1
    /\ Len(PassedEdges) = 1 /\ PassedEdges[1].idx = 1
    /\ gOut.warnings = <<[kind |-> "invalid_node", idx |-> 0],
                         [kind |-> "invalid_edge", idx |-> 0]>>

----------------------------------------------------------------------------
(* The data file of the selected trigger: C12 *)

\* the name of the data file of the trigger the selector shows
SelectedFile == FileName(filename_from_trigger(ss["simulation_trigger"]))

\* the page has the selector, and the file of its trigger is missing or its
\* content is not JSON
FileMissing == shown.selectbox /\ SelectedFile \notin DOMAIN fs.files
FileUnparseable ==
    shown.selectbox /\ SelectedFile \in DOMAIN fs.files /\ fs.files[SelectedFile] = Unparseable

\* C12: in a run whose selected trigger has a missing or unparseable data file,
\* the load reports its error, the selector is not called, no graph, no Run
\* button and no strategy result is on the page, the run ends without an
\* exception, and the session holds neither simulation_run nor
\* current_simulation_item after it.
C12_NoDataSkipsSteps ==
    (FileMissing \/ FileUnparseable) =>
        /\ shown.exc = "none"
        /\ shown.msgs[Len(shown.msgs) - 1] =
               (IF FileMissing THEN "error_file_not_found" ELSE "error_parsing")
        /\ shown.msgs[Len(shown.msgs)] = "error_could_not_load"
        /\ shown.matched = <<>>
        /\ shown.graphs = <<>>
        /\ ~shown.run_button
        /\ shown.strategies = NoMatch
        /\ "simulation_run" \notin DOMAIN ss
        /\ "current_simulation_item" \notin DOMAIN ss

\* the trigger "A" is selected, whose file a.json is there and is not JSON,
\* beside a trigger whose file has a match
C12_Witness ==
    /\ FileUnparseable
    /\ ss["simulation_trigger"] = <<"A">>
    /\ FileName(NameAB) \in DOMAIN fs.files
    /\ shown.msgs = <<"error_parsing", "error_could_not_load">>
    /\ shown.scores = ss["final_scores"]

----------------------------------------------------------------------------
(* The trigger list: C13 *)

\* the .json files of the directory
JsonFiles == {f \in DOMAIN fs.files : EndsWithJson(f)}

\* the list is in sorted order
IsSorted(names) == \A i, j \in DOMAIN names : i < j => ~StrLess(names[j], names[i])

\* the list has each display name as many times as there are files with it
OnePerFile(names) ==
    /\ Len(names) = Cardinality(JsonFiles)
    /\ \A f \in JsonFiles :
           Cardinality({i \in DOMAIN names : names[i] = pretty_name_from_filename(f)})
               = Cardinality({g \in JsonFiles :
                                 pretty_name_from_filename(g) = pretty_name_from_filename(f)})

\* C13: the list get_available_triggers returns, which the selector shows, is
\* never empty: it is the single name "Accelerated Growth" when the directory
\* is missing, cannot be listed or holds no .json file, and otherwise it has
\* one display name per .json file, in sorted order; the stored
\* simulation_trigger is a member of it.
C13_TriggerListAndMember ==
    shown.selectbox =>
        /\ shown.options # <<>>
        /\ IF fs.dir # "ok" \/ JsonFiles = {}
           THEN shown.options = <<AcceleratedGrowth>>
           ELSE OnePerFile(shown.options) /\ IsSorted(shown.options)
        /\ "simulation_trigger" \in DOMAIN ss
        /\ InList(ss["simulation_trigger"], shown.options)

\* the directory holds accelerated_growth.json and a_b.json: the list is
\* "A B", "Accelerated Growth", and the second has been selected
C13_Witness ==
    /\ shown.selectbox
    /\ fs.dir = "ok"
    /\ DOMAIN fs.files = {FileName(NameAcc), FileName(NameAB)}
    /\ shown.options = << <<"A", " ", "B">>, AcceleratedGrowth >>
    /\ ss["simulation_trigger"] = AcceleratedGrowth

----------------------------------------------------------------------------
(* Reset: C14 *)

Submitted == "questionnaire_submitted" \in DOMAIN ss /\ ss["questionnaire_submitted"]

\* the run st.rerun() starts after a reset has ended
AfterResetRun == shown.event = "rerun"

\* C14: after a reset the session holds the two flags, both False, and nothing
\* else, and every radio is unset; from then until the questionnaire is
\* submitted again no run shows scores, graphs or strategy results, and only a
\* submission ends that.
C14_ResetDiscardsSession ==
    /\ [](AfterResetRun =>
              /\ DOMAIN ss = {"questionnaire_submitted", "simulation_run"}
              /\ ss["questionnaire_submitted"] = FALSE
              /\ ss["simulation_run"] = FALSE
              /\ radio = AllUnset)
    /\ [](~Submitted =>
              /\ shown.scores = EmptyDict
              /\ shown.graphs = <<>>
              /\ shown.strategies = NoMatch
              /\ ~shown.selectbox /\ ~shown.run_button)
    /\ [][(~Submitted /\ Submitted') => shown'.event = "submit"]_vars
    /\ [][(Submitted /\ ~Submitted') => shown'.event = "rerun"]_vars

\* a session that held scores, a trigger, the answers and the item of a Run
\* Simulation press has been reset
C14_Witness ==
    /\ AfterResetRun
    /\ ss = StateAfterReset
    /\ shown.reset_button
    /\ shown.scores = EmptyDict

----------------------------------------------------------------------------
(* The strategy results: C15, C16 *)

\* the page shows strategy results
StrategiesShown == shown.strategies # NoMatch

\* C15: in every run that shows strategy results, the item whose strategies
\* are shown is the item the selector returned in that run, for the trigger
\* selected in it and the scores of the session.
C15_DisplayedIsMatched ==
    StrategiesShown => shown.matched = <<shown.strategies>>

\* the run a submission starts leaves neither key in the session and shows no
\* strategy result
SubmissionRemovesKeys ==
    shown.event = "submit" =>
        /\ "simulation_run" \notin DOMAIN ss
        /\ "current_simulation_item" \notin DOMAIN ss
        /\ ~StrategiesShown

\* strategy results are shown only with simulation_run true and
\* current_simulation_item in the session, and they are those of that item
StrategiesNeedRun ==
    StrategiesShown =>
        /\ "simulation_run" \in DOMAIN ss /\ ss["simulation_run"] = TRUE
        /\ "current_simulation_item" \in DOMAIN ss
        /\ ss["current_simulation_item"] = shown.strategies

\* only a run that Run Simulation starts puts current_simulation_item in the
\* session or makes simulation_run true
OnlyRunSetsItem ==
    /\ ("current_simulation_item" \notin DOMAIN ss /\ "current_simulation_item" \in DOMAIN ss')
           => shown'.event = "run"
    /\ (~(Get(ss, "simulation_run", FALSE) = TRUE) /\ Get(ss', "simulation_run", FALSE) = TRUE)
           => shown'.event = "run"

\* C16: every submission removes simulation_run and current_simulation_item
\* from the session; strategy results are shown only in runs where
\* simulation_run is true and current_simulation_item is present, and only a
\* Run Simulation press brings them back.
C16_SubmissionClearsRun ==
    /\ []SubmissionRemovesKeys
    /\ []StrategiesNeedRun
    /\ [][OnlyRunSetsItem]_vars

====
